---- MODULE Spec2Model ----
(***************************************************************************)
(* Model of the article-extraction pipeline of leelo:                      *)
(*   src/src/server/services/queue.ts   (job queue, worker, Reaper)        *)
(*   src/src/server/routes/articles.ts  (POST /, POST /:id/retry-extraction)*)
(* The queue is a better-queue instance configured with concurrent: 2,     *)
(* maxRetries: 3, retryDelay: 5000; a handler runs as a chain of awaited   *)
(* steps, and every await is a point where other handlers interleave.      *)
(***************************************************************************)
EXTENDS Integers, Sequences, FiniteSets, TLC

\* ---- bounds of the model -------------------------------------------------
MaxArticles == 2
MaxJobs == 3
MaxCleanupRuns == 1
MaxFailures == 3
MaxUninitCalls == 1
MaxNotFound == 1

\* ---- program constants ---------------------------------------------------
concurrent == 2
maxRetries == 3

Articles == 1..MaxArticles
JobIds == 1..MaxJobs

\* ---- values --------------------------------------------------------------
\* A nullable column is a sequence: <<>> is NULL, <<v>> is the value v.
Null == <<>>
Some(v) == <<v>>

\* The url of article a; a job carries the url of its article.
Url(a) == [article |-> a]

\* What the extractor can throw: an Error with a message (possibly the empty
\* one) or a value that is not an Error.
Thrown == { [isError |-> TRUE,  message |-> "fetch failed"],
            [isError |-> TRUE,  message |-> ""],
            [isError |-> FALSE, message |-> "not an Error"] }

\* queue.ts:105  error instanceof Error ? error.message : 'Unknown error'
errorMessage(e) == IF e.isError THEN e.message ELSE "Unknown error"

\* queue.ts:194
TimeoutMessage == "Extraction timeout - job was stuck"

\* A title or a content is a text built from a template: `kind` names the
\* template, `url` and `text` are what the template embeds.
Text(kind, url, text) == [kind |-> kind, url |-> url, text |-> text]
NoUrl == [article |-> 0]

\* The title and content of the ExtractedArticle returned to job j.
Extracted(j) == [title |-> Text("extracted title", NoUrl, ToString(j)),
                 content |-> Text("extracted content", NoUrl, ToString(j))]

\* queue.ts:111-112  the placeholder written by the catch block
FailedTitle == Text("Failed to extract", NoUrl, "")
FailedContent(url, msg) == Text("Failed to extract content from URL, Error", url, msg)

\* articles.ts:160  the temporary title of a new row
TemporaryTitle == Text("Extracting...", NoUrl, "")

VARIABLES
  queueInit,         \* queue.ts:17  the module-level queue has been constructed
  exists,            \* [Articles -> BOOLEAN]  the row is in the articles table
  extractionStatus,  \* [Articles -> {"pending","extracting","completed","failed"}]
  extractionError,   \* [Articles -> Null or Some(message)]
  title,             \* [Articles -> title]
  content,           \* [Articles -> Null or content]
  stale,             \* [Articles -> BOOLEAN]  extracting and updatedAt < now - 10 minutes
  jobs,              \* sequence of job records, the job id is the index
  fifo,              \* ids of the jobs waiting for a worker, FIFO
  uninitRejected,    \* number of addJob calls rejected with 'Queue not initialized'
  cleanup,           \* the cleanupStuckExtractions call; runs counts the calls that found a row
  statusLog,         \* [Articles -> the extractionStatus values written so far]
  retryNotFound,     \* number of retryExtractionJob calls that threw 'Article not found'
  args,              \* the arguments of a call of isExactDomain
  ret,               \* Null, or Some(the value the call returned)
  page,              \* what extractFromUrl meets: the response, the document, the network
  ex,                \* the extractFromUrl call: its position and its locals
  assets,            \* the assets directory: [file name -> Null or Some(bytes)]
  imageLog,          \* the downloadAndOptimizeImage calls made so far
  startup            \* start(): its position, and the rows it found in the table

queueVars == <<queueInit, exists, extractionStatus, extractionError, title, content,
               stale, jobs, fifo, uninitRejected, cleanup, statusLog>>

extractorVars == <<args, ret, page, ex, assets, imageLog>>

vars == <<queueVars, retryNotFound, extractorVars, startup>>

articleVars == <<exists, extractionStatus, extractionError, title, content, stale, statusLog>>

\* The log holds up to LogCap writes; a longer history is cut to LongLog.
LogCap == 3
LongLog == <<"more than LogCap writes">>
Logged(log, v) == IF log # LongLog /\ Len(log) < LogCap THEN Append(log, v) ELSE LongLog

IdleCleanup == [pc |-> "idle", list |-> <<>>, job |-> 0, found |-> 0, cleaned |-> Null, runs |-> 0]

\* start() is not followed: the table was empty when the process started.
NotFollowed == [pc |-> "-", left |-> {}]

\* No extractor call is being followed.
ExtractorIdle ==
  /\ args = Null /\ ret = Null
  /\ page = Null /\ ex = Null
  /\ assets = Null /\ imageLog = <<>>

\* queue.ts:17-18  the module has been loaded, setupQueue has not been called
QueueInit ==
  /\ queueInit = FALSE
  /\ exists = [a \in Articles |-> FALSE]
  /\ extractionStatus = [a \in Articles |-> "pending"]
  /\ extractionError = [a \in Articles |-> Null]
  /\ title = [a \in Articles |-> TemporaryTitle]
  /\ content = [a \in Articles |-> Null]
  /\ stale = [a \in Articles |-> FALSE]
  /\ jobs = <<>>
  /\ fifo = <<>>
  /\ uninitRejected = 0
  /\ cleanup = IdleCleanup
  /\ statusLog = [a \in Articles |-> <<>>]
  /\ retryNotFound = 0
  /\ startup = NotFollowed

Init == QueueInit /\ ExtractorIdle

\* ---- the queue -----------------------------------------------------------
JobsOf(a) == {j \in 1..Len(jobs) : jobs[j].art = a}
Running == {j \in 1..Len(jobs) : jobs[j].state = "running"}

\* Articles whose POST handler has created the row and not yet called addJob;
\* a row that was in the table when the process started has no handler.
AwaitingAddJob ==
  {a \in Articles \ startup.left : exists[a] /\ \A j \in JobsOf(a) : jobs[j].origin # "post"}

\* Job ids already promised to a handler that is on its way to addJob.
Reserved == Cardinality(AwaitingAddJob) + Len(cleanup.list)

\* runs counts the invocations of the handler, retries the failed ones;
\* reason is what the promise of addJob has been rejected with.
NewJob(a, origin) ==
  [art |-> a, url |-> Url(a), origin |-> origin, state |-> "queued", pc |-> "-",
   retries |-> 0, runs |-> 0, promise |-> "pending", reason |-> Null]

\* queue.ts:20-59
setupQueue ==
  /\ ~queueInit
  /\ queueInit' = TRUE
  /\ UNCHANGED <<articleVars, jobs, fifo, uninitRejected, cleanup>>
  /\ UNCHANGED <<extractorVars, retryNotFound, startup>>

\* queue.ts:125-128  addJob while the queue is undefined: the promise is
\* rejected with 'Queue not initialized' and nothing is pushed
addJobUninitialized ==
  /\ ~queueInit
  /\ uninitRejected < MaxUninitCalls
  /\ uninitRejected' = uninitRejected + 1
  /\ UNCHANGED <<queueInit, articleVars, jobs, fifo, cleanup>>
  /\ UNCHANGED <<extractorVars, retryNotFound, startup>>

\* queue.ts:130-136  queue.push(jobData, cb): the job is accepted and cb is
\* kept by better-queue until the task has finished or failed
addJob(a, origin) ==
  /\ queueInit
  /\ jobs' = Append(jobs, NewJob(a, origin))
  /\ fifo' = Append(fifo, Len(jobs) + 1)

\* ---- writes to the articles table ----------------------------------------
\* prisma.article.update of the extraction columns of row a; every update
\* sets updatedAt to the current time.
UpdateArticle(a, st, err, ti, co) ==
  /\ extractionStatus' = [extractionStatus EXCEPT ![a] = st]
  /\ extractionError' = [extractionError EXCEPT ![a] = err]
  /\ title' = [title EXCEPT ![a] = ti]
  /\ content' = [content EXCEPT ![a] = co]
  /\ stale' = [stale EXCEPT ![a] = FALSE]
  /\ statusLog' = [statusLog EXCEPT ![a] = Logged(@, st)]
  /\ UNCHANGED exists

\* ---- the worker: queue.ts:26-47 and processArticleExtraction 61-121 ------

\* A queue that starts the head of the FIFO whatever the number of handlers
\* that are running.
workerStartUnbounded ==
  /\ fifo # <<>>
  /\ jobs' = [jobs EXCEPT ![Head(fifo)].state = "running", ![Head(fifo)].pc = "mark",
                          ![Head(fifo)].runs = @ + 1]
  /\ fifo' = Tail(fifo)
  /\ UNCHANGED <<queueInit, articleVars, uninitRejected, cleanup>>
  /\ UNCHANGED <<extractorVars, retryNotFound, startup>>

\* A queue whose re-attempt of a job enters the handler at the extractor call.
workerStartRetryAtExtractor ==
  /\ fifo # <<>>
  /\ Cardinality(Running) < concurrent
  /\ jobs' = [jobs EXCEPT ![Head(fifo)].state = "running",
                          ![Head(fifo)].pc = IF jobs[Head(fifo)].retries > 0 THEN "extract"
                                             ELSE "mark",
                          ![Head(fifo)].runs = @ + 1]
  /\ fifo' = Tail(fifo)
  /\ UNCHANGED <<queueInit, articleVars, uninitRejected, cleanup>>
  /\ UNCHANGED <<extractorVars, retryNotFound, startup>>

\* better-queue hands the job at the head of the FIFO to the handler while
\* fewer than `concurrent` handlers are running; the handler runs up to its
\* first await (the update of queue.ts:69 has been issued, not yet applied).
workerStart ==
  /\ fifo # <<>>
  /\ Cardinality(Running) < concurrent
  /\ jobs' = [jobs EXCEPT ![Head(fifo)].state = "running", ![Head(fifo)].pc = "mark",
                          ![Head(fifo)].runs = @ + 1]
  /\ fifo' = Tail(fifo)
  /\ UNCHANGED <<queueInit, articleVars, uninitRejected, cleanup>>
  /\ UNCHANGED <<extractorVars, retryNotFound, startup>>

\* markExtracting without its write: the extractor is called at once.
markExtractingSkipped(j) ==
  /\ jobs[j].state = "running" /\ jobs[j].pc = "mark"
  /\ jobs' = [jobs EXCEPT ![j].pc = "extract"]
  /\ UNCHANGED <<queueInit, articleVars, fifo, uninitRejected, cleanup>>
  /\ UNCHANGED <<extractorVars, retryNotFound, startup>>

\* markExtracting that sets the status and leaves extractionError alone.
markExtractingKeepsError(j) ==
  /\ jobs[j].state = "running" /\ jobs[j].pc = "mark"
  /\ UpdateArticle(jobs[j].art, "extracting", extractionError[jobs[j].art],
                   title[jobs[j].art], content[jobs[j].art])
  /\ jobs' = [jobs EXCEPT ![j].pc = "extract"]
  /\ UNCHANGED <<queueInit, fifo, uninitRejected, cleanup>>
  /\ UNCHANGED <<extractorVars, retryNotFound, startup>>

\* queue.ts:69-79  the row is set to extracting, then the extractor is called
markExtracting(j) ==
  /\ jobs[j].state = "running" /\ jobs[j].pc = "mark"
  /\ UpdateArticle(jobs[j].art, "extracting", Null, title[jobs[j].art], content[jobs[j].art])
  /\ jobs' = [jobs EXCEPT ![j].pc = "extract"]
  /\ UNCHANGED <<queueInit, fifo, uninitRejected, cleanup>>
  /\ UNCHANGED <<extractorVars, retryNotFound, startup>>

\* markCompleted that writes the extracted fields and leaves the status.
markCompletedKeepsStatus(j) ==
  /\ jobs[j].state = "running" /\ jobs[j].pc = "extract"
  /\ UpdateArticle(jobs[j].art, extractionStatus[jobs[j].art], Null, Extracted(j).title,
                   Some(Extracted(j).content))
  /\ jobs' = [jobs EXCEPT ![j].state = "finished", ![j].pc = "-",
                          ![j].promise = "resolved"]
  /\ UNCHANGED <<queueInit, fifo, uninitRejected, cleanup>>
  /\ UNCHANGED <<extractorVars, retryNotFound, startup>>

\* markCompleted that sets the status and does not write the extracted fields.
markCompletedStatusOnly(j) ==
  /\ jobs[j].state = "running" /\ jobs[j].pc = "extract"
  /\ UpdateArticle(jobs[j].art, "completed", Null, title[jobs[j].art], content[jobs[j].art])
  /\ jobs' = [jobs EXCEPT ![j].state = "finished", ![j].pc = "-",
                          ![j].promise = "resolved"]
  /\ UNCHANGED <<queueInit, fifo, uninitRejected, cleanup>>
  /\ UNCHANGED <<extractorVars, retryNotFound, startup>>

\* queue.ts:79-101  the extractor returns and the result is written, then
\* queue.ts:38 cb(null, 'completed'): better-queue finishes the task and
\* calls the push callback without an error.
markCompleted(j) ==
  /\ jobs[j].state = "running" /\ jobs[j].pc = "extract"
  /\ UpdateArticle(jobs[j].art, "completed", Null, Extracted(j).title, Some(Extracted(j).content))
  /\ jobs' = [jobs EXCEPT ![j].state = "finished", ![j].pc = "-",
                          ![j].promise = "resolved"]
  /\ UNCHANGED <<queueInit, fifo, uninitRejected, cleanup>>
  /\ UNCHANGED <<extractorVars, retryNotFound, startup>>

\* The failure count compared with > : one more attempt than maxRetries.
AfterFailureOneMore(job) ==
  IF job.retries + 1 > maxRetries
    THEN [job EXCEPT !.state = "failed", !.pc = "-", !.retries = @ + 1,
                     !.promise = "rejected"]
    ELSE [job EXCEPT !.state = "waiting", !.pc = "-", !.retries = @ + 1]

\* better-queue on cb(error): the failure is counted; below maxRetries the
\* task waits retryDelay and is pushed again, otherwise the task has failed
\* and the push callback is called with the error.
AfterFailure(job) ==
  IF job.retries + 1 >= maxRetries
    THEN [job EXCEPT !.state = "failed", !.pc = "-", !.retries = @ + 1,
                     !.promise = "rejected"]
    ELSE [job EXCEPT !.state = "waiting", !.pc = "-", !.retries = @ + 1]

\* queue.ts:130-132  the push callback gets the error of the last attempt and
\* the promise of addJob is rejected with it
Rejected(job, e) == IF job.promise = "rejected" THEN [job EXCEPT !.reason = Some(e)] ELSE job

\* The number of extractor calls that have thrown so far.
RECURSIVE SumRetries(_)
SumRetries(n) == IF n = 0 THEN 0 ELSE jobs[n].retries + SumRetries(n - 1)
Failures == SumRetries(Len(jobs))

\* The catch block that writes the status and leaves extractionError alone.
markFailedKeepsError(j, e) ==
  /\ jobs[j].state = "running" /\ jobs[j].pc = "extract"
  /\ Failures < MaxFailures
  /\ UpdateArticle(jobs[j].art, "failed", extractionError[jobs[j].art], FailedTitle,
                   Some(FailedContent(jobs[j].url, errorMessage(e))))
  /\ jobs' = [jobs EXCEPT ![j] = Rejected(AfterFailure(@), e)]
  /\ UNCHANGED <<queueInit, fifo, uninitRejected, cleanup>>
  /\ UNCHANGED <<extractorVars, retryNotFound, startup>>

\* A catch block that writes the failure only when the attempt is the last.
markFailedLastOnly(j, e) ==
  /\ jobs[j].state = "running" /\ jobs[j].pc = "extract"
  /\ Failures < MaxFailures
  /\ IF jobs[j].retries + 1 >= maxRetries
       THEN UpdateArticle(jobs[j].art, "failed", Some(errorMessage(e)), FailedTitle,
                          Some(FailedContent(jobs[j].url, errorMessage(e))))
       ELSE UNCHANGED articleVars
  /\ jobs' = [jobs EXCEPT ![j] = Rejected(AfterFailure(@), e)]
  /\ UNCHANGED <<queueInit, fifo, uninitRejected, cleanup>>
  /\ UNCHANGED <<extractorVars, retryNotFound, startup>>

\* queue.ts:79 the extractor throws e, queue.ts:102-120 the catch block
\* writes the failure and rethrows, queue.ts:39-41 cb(error)
markFailed(j, e) ==
  /\ jobs[j].state = "running" /\ jobs[j].pc = "extract"
  /\ Failures < MaxFailures
  /\ UpdateArticle(jobs[j].art, "failed", Some(errorMessage(e)), FailedTitle,
                   Some(FailedContent(jobs[j].url, errorMessage(e))))
  /\ jobs' = [jobs EXCEPT ![j] = Rejected(AfterFailure(@), e)]
  /\ UNCHANGED <<queueInit, fifo, uninitRejected, cleanup>>
  /\ UNCHANGED <<extractorVars, retryNotFound, startup>>

\* A re-attempt that is never handed back to the FIFO after the retry delay.
retryDelayElapsedNotQueued(j) ==
  /\ jobs[j].state = "waiting"
  /\ jobs' = [jobs EXCEPT ![j].state = "queued"]
  /\ UNCHANGED <<queueInit, articleVars, fifo, uninitRejected, cleanup>>
  /\ UNCHANGED <<extractorVars, retryNotFound, startup>>

\* queue.ts:46  retryDelay: 5000 has elapsed, the task is queued again
retryDelayElapsed(j) ==
  /\ jobs[j].state = "waiting"
  /\ jobs' = [jobs EXCEPT ![j].state = "queued"]
  /\ fifo' = Append(fifo, j)
  /\ UNCHANGED <<queueInit, articleVars, uninitRejected, cleanup>>
  /\ UNCHANGED <<extractorVars, retryNotFound, startup>>

\* ---- the routes: articles.ts ---------------------------------------------
\* articles.ts:140-163  POST /: the row is created with the column defaults
\* (extractionStatus 'pending', content NULL) and the temporary title.
\* Articles are numbered in the order of their creation.
postCreateArticle(a) ==
  /\ queueInit
  /\ ~exists[a]
  /\ \A b \in 1..(a - 1) : exists[b]
  /\ Len(jobs) + Reserved < MaxJobs
  /\ exists' = [exists EXCEPT ![a] = TRUE]
  /\ extractionStatus' = [extractionStatus EXCEPT ![a] = "pending"]
  /\ extractionError' = [extractionError EXCEPT ![a] = Null]
  /\ title' = [title EXCEPT ![a] = TemporaryTitle]
  /\ content' = [content EXCEPT ![a] = Null]
  /\ stale' = [stale EXCEPT ![a] = FALSE]
  /\ statusLog' = [statusLog EXCEPT ![a] = <<"pending">>]
  /\ UNCHANGED <<queueInit, jobs, fifo, uninitRejected, cleanup>>
  /\ UNCHANGED <<extractorVars, retryNotFound, startup>>

\* articles.ts:193-201  POST /: await addJob(...)
postAddJob(a) ==
  /\ a \in AwaitingAddJob
  /\ addJob(a, "post")
  /\ UNCHANGED <<queueInit, articleVars, uninitRejected, cleanup>>
  /\ UNCHANGED <<extractorVars, retryNotFound, startup>>

\* The reply that answers only once the job has been pushed, not once it has ended.
postReplyOnAccept(a) ==
  LET mine == {j \in JobsOf(a) : jobs[j].origin = "post"}
  IN  IF mine = {} THEN "none" ELSE "200 Article added and extraction started"

\* articles.ts:193-213 and server.ts:160-163  the reply of POST / for article
\* a: none while the handler awaits addJob, the article once the promise has
\* resolved, and once it has been rejected the error is rethrown and the error
\* handler answers 500
postReply(a) ==
  LET mine == {j \in JobsOf(a) : jobs[j].origin = "post"}
  IN  IF \A j \in mine : jobs[j].promise = "pending" THEN "none"
      ELSE IF \E j \in mine : jobs[j].promise = "rejected"
             THEN "500 Internal Server Error"
             ELSE "200 Article added and extraction started"

\* A retry that also sets the row to extracting when it pushes the job.
retryExtractionJobMarksExtracting(a) ==
  /\ exists[a]
  /\ Len(jobs) + Reserved < MaxJobs
  /\ addJob(a, "retry")
  /\ UpdateArticle(a, "extracting", Null, title[a], content[a])
  /\ UNCHANGED <<queueInit, uninitRejected, cleanup>>
  /\ UNCHANGED <<extractorVars, retryNotFound, startup>>

\* A retry that also resets the row to pending when it pushes the job.
retryExtractionJobResetsPending(a) ==
  /\ exists[a]
  /\ Len(jobs) + Reserved < MaxJobs
  /\ addJob(a, "retry")
  /\ UpdateArticle(a, "pending", Null, title[a], content[a])
  /\ UNCHANGED <<queueInit, uninitRejected, cleanup>>
  /\ UNCHANGED <<extractorVars, retryNotFound, startup>>

\* A retry that is refused while the article is extracting.
retryExtractionJobUnlessExtracting(a) ==
  /\ exists[a]
  /\ extractionStatus[a] # "extracting"
  /\ Len(jobs) + Reserved < MaxJobs
  /\ addJob(a, "retry")
  /\ UNCHANGED <<queueInit, articleVars, uninitRejected, cleanup>>
  /\ UNCHANGED <<extractorVars, retryNotFound, startup>>

\* articles.ts:369-390 and queue.ts:151-169  the row is read and a job with
\* its id, url and userId is pushed, whatever the status of the row.
retryExtractionJob(a) ==
  /\ exists[a]
  /\ Len(jobs) + Reserved < MaxJobs
  /\ addJob(a, "retry")
  /\ UNCHANGED <<queueInit, articleVars, uninitRejected, cleanup>>
  /\ UNCHANGED <<extractorVars, retryNotFound, startup>>

\* A retry that pushes a job without looking for the row.
retryExtractionJobUnchecked(a) ==
  /\ queueInit
  /\ ~exists[a]
  /\ retryNotFound < MaxNotFound
  /\ Len(jobs) + Reserved < MaxJobs
  /\ addJob(a, "retry")
  /\ retryNotFound' = retryNotFound + 1
  /\ UNCHANGED <<queueInit, articleVars, uninitRejected, cleanup, extractorVars, startup>>

\* queue.ts:152-158  findUnique finds no row with the id: the call throws
\* 'Article not found' before it reaches addJob
retryExtractionJobNotFound(a) ==
  /\ queueInit
  /\ ~exists[a]
  /\ retryNotFound < MaxNotFound
  /\ retryNotFound' = retryNotFound + 1
  /\ UNCHANGED <<queueVars, extractorVars, startup>>

\* ---- the Reaper: cleanupStuckExtractions, queue.ts:171-208 ----------------
\* A scan that takes every row that is extracting, whatever its age.
StuckAnyAge == {a \in Articles : exists[a] /\ extractionStatus[a] = "extracting"}

\* A scan that also takes the rows that are pending.
StuckOrPending ==
  {a \in Articles : exists[a] /\ (extractionStatus[a] = "pending"
                                    \/ (extractionStatus[a] = "extracting" /\ stale[a]))}

Stuck == {a \in Articles : exists[a] /\ extractionStatus[a] = "extracting" /\ stale[a]}

\* The orders in which findMany can return a set of rows.
Orderings(S) == {q \in [1..Cardinality(S) -> S] : \A i, k \in 1..Cardinality(S) : i # k => q[i] # q[k]}

\* queue.ts:173-184  findMany; with nothing found the call returns at once
cleanupScan ==
  /\ queueInit
  /\ cleanup.pc = "idle"
  /\ cleanup.runs < MaxCleanupRuns
  /\ Len(jobs) + Reserved + Cardinality(Stuck) <= MaxJobs
  /\ \E q \in Orderings(Stuck) :
       cleanup' = [pc |-> IF Stuck = {} THEN "idle" ELSE "mark",
                   list |-> q, job |-> 0, found |-> Cardinality(Stuck),
                   cleaned |-> IF Stuck = {} THEN Some(0) ELSE Null,
                   runs |-> IF Stuck = {} THEN cleanup.runs ELSE cleanup.runs + 1]
  /\ UNCHANGED <<queueInit, articleVars, jobs, fifo, uninitRejected>>
  /\ UNCHANGED <<extractorVars, retryNotFound, startup>>

\* The Reaper's update without the error message.
cleanupMarkFailedNoMessage ==
  /\ cleanup.pc = "mark"
  /\ UpdateArticle(Head(cleanup.list), "failed", Null,
                   title[Head(cleanup.list)], content[Head(cleanup.list)])
  /\ cleanup' = [cleanup EXCEPT !.pc = "reschedule"]
  /\ UNCHANGED <<queueInit, jobs, fifo, uninitRejected>>
  /\ UNCHANGED <<extractorVars, retryNotFound, startup>>

\* The Reaper's update with the placeholder title and content of the catch block.
cleanupMarkFailedWithPlaceholder ==
  /\ cleanup.pc = "mark"
  /\ UpdateArticle(Head(cleanup.list), "failed", Some(TimeoutMessage), FailedTitle,
                   Some(FailedContent(Url(Head(cleanup.list)), TimeoutMessage)))
  /\ cleanup' = [cleanup EXCEPT !.pc = "reschedule"]
  /\ UNCHANGED <<queueInit, jobs, fifo, uninitRejected>>
  /\ UNCHANGED <<extractorVars, retryNotFound, startup>>

\* queue.ts:190-197  the update names the row by id only
cleanupMarkFailed ==
  /\ cleanup.pc = "mark"
  /\ UpdateArticle(Head(cleanup.list), "failed", Some(TimeoutMessage),
                   title[Head(cleanup.list)], content[Head(cleanup.list)])
  /\ cleanup' = [cleanup EXCEPT !.pc = "reschedule"]
  /\ UNCHANGED <<queueInit, jobs, fifo, uninitRejected>>
  /\ UNCHANGED <<extractorVars, retryNotFound, startup>>

\* queue.ts:200  await retryExtractionJob(article.id)
cleanupReschedule ==
  /\ cleanup.pc = "reschedule"
  /\ addJob(Head(cleanup.list), "cleanup")
  /\ cleanup' = [cleanup EXCEPT !.pc = "await", !.job = Len(jobs) + 1,
                                !.list = Tail(@)]
  /\ UNCHANGED <<queueInit, articleVars, uninitRejected>>
  /\ UNCHANGED <<extractorVars, retryNotFound, startup>>

\* A loop that goes on to the next row without awaiting the job it has pushed.
cleanupResumeAtOnce ==
  /\ cleanup.pc = "await"
  /\ cleanup' = IF cleanup.list = <<>>
                  THEN [cleanup EXCEPT !.pc = "idle", !.cleaned = Some(cleanup.found)]
                  ELSE [cleanup EXCEPT !.pc = "mark"]
  /\ UNCHANGED <<queueInit, articleVars, jobs, fifo, uninitRejected>>
  /\ UNCHANGED <<extractorVars, retryNotFound, startup>>

\* queue.ts:200-207  the awaited promise settles: the loop goes on with the
\* next row, or the call returns { cleaned: stuckArticles.length }
cleanupResume ==
  /\ cleanup.pc = "await"
  /\ jobs[cleanup.job].promise # "pending"
  /\ cleanup' = IF cleanup.list = <<>>
                  THEN [cleanup EXCEPT !.pc = "idle", !.cleaned = Some(cleanup.found)]
                  ELSE [cleanup EXCEPT !.pc = "mark"]
  /\ UNCHANGED <<queueInit, articleVars, jobs, fifo, uninitRejected>>
  /\ UNCHANGED <<extractorVars, retryNotFound, startup>>

\* ---- time ----------------------------------------------------------------
\* More than 10 minutes pass (queue.ts:173): every row that is extracting is
\* older than the threshold until it is updated again.  (The age of a row
\* is read by cleanupScan only, and only of a row that is extracting.)
tick ==
  /\ cleanup.pc = "idle" /\ cleanup.runs < MaxCleanupRuns
  /\ \E a \in Articles : exists[a] /\ extractionStatus[a] = "extracting" /\ ~stale[a]
  /\ stale' = [a \in Articles |-> exists[a] /\ extractionStatus[a] = "extracting"]
  /\ UNCHANGED <<queueInit, exists, extractionStatus, extractionError, title,
                 content, statusLog, jobs, fifo, uninitRejected, cleanup>>
  /\ UNCHANGED <<extractorVars, retryNotFound, startup>>

Next ==
  \/ setupQueue
  \/ addJobUninitialized
  \/ \E a \in Articles : postCreateArticle(a)
  \/ \E a \in Articles : postAddJob(a)
  \/ \E a \in Articles : retryExtractionJob(a)
  \/ workerStart
  \/ \E j \in 1..Len(jobs) : markExtracting(j)
  \/ \E j \in 1..Len(jobs) : markCompleted(j)
  \/ \E j \in 1..Len(jobs) : \E e \in Thrown : markFailed(j, e)
  \/ \E j \in 1..Len(jobs) : retryDelayElapsed(j)
  \/ cleanupScan
  \/ cleanupMarkFailed
  \/ cleanupReschedule
  \/ cleanupResume
  \/ tick

Spec == Init /\ [][Next]_vars

\* server.ts:166-187  the server has started: setupQueue has run, and the
\* startup run of cleanupStuckExtractions has found an empty table.
Started ==
  /\ queueInit = TRUE
  /\ exists = [a \in Articles |-> FALSE]
  /\ extractionStatus = [a \in Articles |-> "pending"]
  /\ extractionError = [a \in Articles |-> Null]
  /\ title = [a \in Articles |-> TemporaryTitle]
  /\ content = [a \in Articles |-> Null]
  /\ stale = [a \in Articles |-> FALSE]
  /\ jobs = <<>>
  /\ fifo = <<>>
  /\ uninitRejected = 0
  /\ cleanup = IdleCleanup
  /\ statusLog = [a \in Articles |-> <<>>]
  /\ retryNotFound = 0
  /\ startup = NotFollowed

InitRetry == Started /\ ExtractorIdle

\* The started server, where retryExtractionJob is also called with ids of
\* rows that are not in the table.
NextRetry ==
  \/ \E a \in Articles : postCreateArticle(a)
  \/ \E a \in Articles : postAddJob(a)
  \/ \E a \in Articles : retryExtractionJob(a)
  \/ \E a \in Articles : retryExtractionJobNotFound(a)
  \/ workerStart
  \/ \E j \in 1..Len(jobs) : markExtracting(j)
  \/ \E j \in 1..Len(jobs) : markCompleted(j)
  \/ \E j \in 1..Len(jobs) : \E e \in Thrown : markFailed(j, e)
  \/ \E j \in 1..Len(jobs) : retryDelayElapsed(j)
  \/ cleanupScan
  \/ cleanupMarkFailed
  \/ cleanupReschedule
  \/ cleanupResume
  \/ tick

SpecRetry == InitRetry /\ [][NextRetry]_vars

\* ---- scheduling ------------------------------------------------------------
\* The process does not crash and the event loop runs every callback that is
\* ready: better-queue starts a queued task when a worker is free (queue.ts:44),
\* an awaited update is applied (queue.ts:69), the awaited extractor call
\* returns or throws (queue.ts:79), and the retry delay elapses (queue.ts:46).
Fairness ==
  /\ WF_vars(workerStart)
  /\ \A j \in JobIds :
       /\ WF_vars(j <= Len(jobs) /\ markExtracting(j))
       /\ WF_vars(j <= Len(jobs) /\ (markCompleted(j) \/ \E e \in Thrown : markFailed(j, e)))
       /\ WF_vars(j <= Len(jobs) /\ retryDelayElapsed(j))

\* The started server with up to MaxFairJobs jobs.
MaxFairJobs == 2
Room == Len(jobs) + Reserved < MaxFairJobs

NextFair ==
  \/ \E a \in Articles : Room /\ postCreateArticle(a)
  \/ \E a \in Articles : postAddJob(a)
  \/ \E a \in Articles : Room /\ retryExtractionJob(a)
  \/ workerStart
  \/ \E j \in 1..Len(jobs) : markExtracting(j)
  \/ \E j \in 1..Len(jobs) : markCompleted(j)
  \/ \E j \in 1..Len(jobs) : \E e \in Thrown : markFailed(j, e)
  \/ \E j \in 1..Len(jobs) : retryDelayElapsed(j)
  \/ Room /\ cleanupScan
  \/ cleanupMarkFailed
  \/ cleanupReschedule
  \/ cleanupResume
  \/ tick

SpecFair == InitRetry /\ [][NextFair]_vars /\ Fairness

\* ---- the restart: server.ts:166-187 ----------------------------------------
\* The process has stopped and is started again: the queue of the old process
\* and its jobs are gone (queue.ts:17 is module state), the articles table is
\* what the old process left.

\* The extraction columns of a row; old says that the row is extracting with
\* updatedAt more than 10 minutes ago.
Row(st, err, ti, co, old) ==
  [extractionStatus |-> st, extractionError |-> err, title |-> ti, content |-> co, old |-> old]

\* What the old process can have left of article a: the row as created, its job
\* never started; the row of an attempt that was cut, lately or long ago; the
\* row of a finished extraction; the row of a failed attempt.
LeftRows(a) ==
  { Row("pending", Null, TemporaryTitle, Null, FALSE),
    Row("extracting", Null, TemporaryTitle, Null, FALSE),
    Row("extracting", Null, TemporaryTitle, Null, TRUE),
    Row("completed", Null, Extracted(0).title, Some(Extracted(0).content), FALSE),
    Row("failed", Some("fetch failed"), FailedTitle,
        Some(FailedContent(Url(a), "fetch failed")), FALSE) }

\* The tables the old process can have left: the first n articles, each in
\* one of the states above.
LeftTables ==
  {t \in [Articles -> UNION {LeftRows(a) : a \in Articles} \cup {Null}] :
     \E n \in 1..MaxArticles :
        \A a \in Articles : IF a <= n THEN t[a] \in LeftRows(a) ELSE t[a] = Null}

\* server.ts:166-168  start() is about to call setupQueue
Restarted ==
  \E t \in LeftTables :
    /\ queueInit = FALSE
    /\ exists = [a \in Articles |-> t[a] # Null]
    /\ extractionStatus = [a \in Articles |-> IF t[a] # Null THEN t[a].extractionStatus ELSE "pending"]
    /\ extractionError = [a \in Articles |-> IF t[a] # Null THEN t[a].extractionError ELSE Null]
    /\ title = [a \in Articles |-> IF t[a] # Null THEN t[a].title ELSE TemporaryTitle]
    /\ content = [a \in Articles |-> IF t[a] # Null THEN t[a].content ELSE Null]
    /\ stale = [a \in Articles |-> IF t[a] # Null THEN t[a].old ELSE FALSE]
    /\ jobs = <<>>
    /\ fifo = <<>>
    /\ uninitRejected = 0
    /\ cleanup = IdleCleanup
    /\ statusLog = [a \in Articles |-> <<>>]
    /\ retryNotFound = 0
    /\ startup = [pc |-> "starting", left |-> {a \in Articles : t[a] # Null}]

InitRestart == Restarted /\ ExtractorIdle

\* server.ts:172  await cleanupStuckExtractions(): the startup run of the Reaper
cleanupScanAtStartup ==
  /\ startup.pc = "starting" /\ cleanup = IdleCleanup
  /\ cleanupScan

\* server.ts:172-180  the startup run has returned and the server listens
serverListen ==
  /\ startup.pc = "starting"
  /\ queueInit /\ cleanup.pc = "idle" /\ cleanup # IdleCleanup
  /\ startup' = [startup EXCEPT !.pc = "listening"]
  /\ UNCHANGED <<queueVars, retryNotFound, extractorVars>>

\* The routes are served once the server listens.
Listening == startup.pc = "listening"

NextRestart ==
  \/ setupQueue
  \/ cleanupScanAtStartup
  \/ serverListen
  \/ \E a \in Articles : Listening /\ postCreateArticle(a)
  \/ \E a \in Articles : Listening /\ postAddJob(a)
  \/ \E a \in Articles : Listening /\ retryExtractionJob(a)
  \/ Listening /\ cleanupScan
  \/ workerStart
  \/ \E j \in 1..Len(jobs) : markExtracting(j)
  \/ \E j \in 1..Len(jobs) : markCompleted(j)
  \/ \E j \in 1..Len(jobs) : \E e \in Thrown : markFailed(j, e)
  \/ \E j \in 1..Len(jobs) : retryDelayElapsed(j)
  \/ cleanupMarkFailed
  \/ cleanupReschedule
  \/ cleanupResume
  \/ tick

SpecRestart == InitRestart /\ [][NextRestart]_vars

TypeOK ==
  /\ queueInit \in BOOLEAN
  /\ \A a \in Articles : extractionStatus[a] \in {"pending", "extracting", "completed", "failed"}
  /\ Len(jobs) <= MaxJobs
  /\ \A j \in 1..Len(jobs) : jobs[j].retries <= maxRetries

\* ==== the extractor: src/src/server/services/extractor.ts ====================
\* ---- strings --------------------------------------------------------------
\* A string is the sequence of its characters.  The scheme and '//' of a URL
\* are one element, Scheme; " " stands for any whitespace character.
Scheme == "https://"

Min(S) == CHOOSE x \in S : \A y \in S : x <= y
Max(S) == CHOOSE x \in S : \A y \in S : x >= y

\* String.prototype.toLowerCase on the letters the model uses
Lower(c) == CASE c = "Y" -> "y" [] c = "M" -> "m" [] OTHER -> c
toLowerCase(s) == [i \in 1..Len(s) |-> Lower(s[i])]

\* String.prototype.endsWith
endsWith(s, t) == Len(t) <= Len(s) /\ SubSeq(s, Len(s) - Len(t) + 1, Len(s)) = t

\* String.prototype.trim
NonSpace(s) == {i \in 1..Len(s) : s[i] # " "}
trim(s) == IF NonSpace(s) = {} THEN <<>> ELSE SubSeq(s, Min(NonSpace(s)), Max(NonSpace(s)))

\* new URL(url): Null when the constructor throws (no scheme, or no host),
\* else the URL object; the parser gives the hostname in lower case.
Slashes(url) == {i \in 2..Len(url) : url[i] = "/"}
URL(url) ==
  IF Len(url) >= 2 /\ url[1] = Scheme /\ url[2] # "/"
    THEN Some([hostname |-> toLowerCase(SubSeq(url, 2, IF Slashes(url) = {} THEN Len(url)
                                                         ELSE Min(Slashes(url)) - 1))])
    ELSE Null

\* isExactDomain with endsWith(domain) in place of endsWith('.' + domain).
isExactDomainSuffix(url, domain) ==
  IF URL(url) = Null THEN FALSE
  ELSE LET hostname == toLowerCase(URL(url)[1].hostname)
       IN  hostname = domain \/ endsWith(hostname, domain)

\* extractor.ts:33-41
isExactDomain(url, domain) ==
  IF URL(url) = Null THEN FALSE
  ELSE LET hostname == toLowerCase(URL(url)[1].hostname)
       IN  hostname = domain \/ endsWith(hostname, <<".">> \o domain)

\* ---- isExactDomain called on its own --------------------------------------
MaxHostLen == 4
HostChars == {"y", "Y", "e", "."}

youtube == <<"y", "o", "u", "t", "u", "b", "e", ".", "c", "o", "m">>
youtu_be == <<"y", "o", "u", "t", "u", ".", "b", "e">>
twitter == <<"t", "w", "i", "t", "t", "e", "r", ".", "c", "o", "m">>
x_com == <<"x", ".", "c", "o", "m">>
example == <<"e", "x", "a", "m", "p", "l", "e", ".", "c", "o", "m">>
evilyoutube == <<"e", "v", "i", "l">> \o youtube

Hosts ==
  UNION {[1..n -> HostChars] : n \in 0..MaxHostLen}
    \cup {youtube, evilyoutube, <<"m", ".">> \o youtube, <<"M", ".", "Y">> \o Tail(youtube),
          youtube \o <<".">>, youtu_be}

Domains == {<<"y">>, <<"y", ".", "e">>, youtube, youtu_be}

\* A host as a URL, a host followed by a path, and a host without a scheme
\* (which new URL rejects).
UrlInputs ==
  {<<Scheme>> \o h : h \in Hosts} \cup {<<Scheme>> \o h \o <<"/", "x">> : h \in Hosts} \cup Hosts

InitDomain ==
  /\ QueueInit
  /\ args \in [url : UrlInputs, domain : Domains]
  /\ ret = Null
  /\ page = Null /\ ex = Null /\ assets = Null /\ imageLog = <<>>

isExactDomainCall ==
  /\ ret = Null
  /\ ret' = Some(isExactDomain(args.url, args.domain))
  /\ UNCHANGED <<queueVars, retryNotFound, startup, args, page, ex, assets, imageLog>>

NextDomain == isExactDomainCall

SpecDomain == InitDomain /\ [][NextDomain]_vars

\* ---- the page and its HTML ------------------------------------------------
\* HTML is a sequence of pieces: an element with its text, or an <img> tag
\* with its attributes in the order they are written.
El(kind, text) == [kind |-> kind, text |-> text, attrs |-> <<>>]
Img(attrs) == [kind |-> "img", text |-> <<>>, attrs |-> attrs]
Attr(name, value) == [name |-> name, value |-> value]

\* n words with one space between them
Words(n) == [i \in 1..(2 * n - 1) |-> IF i % 2 = 1 THEN "w" ELSE " "]

\* countWords that does not count the empty string as a word.
countWordsOfText(text) ==
  LET t == trim(text)
  IN  IF t = <<>> THEN 0
      ELSE Cardinality({i \in 1..(Len(t) - 1) : t[i] = " " /\ t[i + 1] # " "}) + 1

\* extractor.ts:392-394  text.trim().split(/\s+/).length: the split of an
\* empty string has one element
countWords(text) ==
  LET t == trim(text)
  IN  IF t = <<>> THEN 1
      ELSE Cardinality({i \in 1..(Len(t) - 1) : t[i] = " " /\ t[i + 1] # " "}) + 1

\* extractor.ts:151  Math.ceil(wordCount / 200)
readingTime(wordCount) == (wordCount + 199) \div 200

\* The words of the note of a fallback content (extractor.ts:430, 432, 434).
NoteText(note) ==
  CASE note = "This is a YouTube video." -> Words(12)
    [] note = "This is a social media post." -> Words(16)
    [] OTHER -> Words(24)

\* extractor.ts:47-88  the tags are removed, runs of whitespace become one
\* space, the result is trimmed (the model's texts hold no entities)
RECURSIVE StripTags(_)
StripTags(html) ==
  IF html = <<>> THEN <<>>
  ELSE (IF Head(html).kind = "p.content-note" THEN NoteText(Head(html).text[1])
        ELSE Head(html).text) \o StripTags(Tail(html))

RECURSIVE Collapse(_)
Collapse(s) ==
  IF Len(s) <= 1 THEN s
  ELSE IF s[1] = " " /\ s[2] = " " THEN Collapse(Tail(s))
  ELSE <<s[1]>> \o Collapse(Tail(s))

sanitizeHtml(html) == trim(Collapse(StripTags(html)))

\* extractor.ts:174-194  the first of h1, og:title, twitter:title, title that
\* is there and is not blank, trimmed
RECURSIVE FirstText(_)
FirstText(found) ==
  IF found = <<>> THEN <<"Untitled Article">>
  ELSE IF Head(found) # Null /\ trim(Head(found)[1]) # <<>> THEN trim(Head(found)[1])
  ELSE FirstText(Tail(found))

extractTitle(document) ==
  FirstText(<<document.h1, document.ogTitle, document.twitterTitle, document.titleTag>>)

\* extractor.ts:396-416  (one description meta tag)
extractDescription(document) ==
  IF document.description # Null /\ trim(document.description[1]) # <<>>
    THEN Some(trim(document.description[1])) ELSE Null

\* extractor.ts:443-449  hostname.replace('www.', '')
www == <<"w", "w", "w", ".">>
WwwAt(h) == {i \in 1..(Len(h) - 3) : SubSeq(h, i, i + 3) = www}
extractDomain(url) ==
  IF URL(url) = Null THEN url
  ELSE LET h == URL(url)[1].hostname
       IN  IF WwwAt(h) = {} THEN h
           ELSE SubSeq(h, 1, Min(WwwAt(h)) - 1) \o SubSeq(h, Min(WwwAt(h)) + 4, Len(h))

\* createFallbackContent that gives every page the note of a page it knows
\* nothing about.
createFallbackContentOneNote(pageTitle, description, baseUrl) ==
  <<El("h1", pageTitle)>>
    \o (IF description # Null THEN <<El("p.description", description[1])>> ELSE <<>>)
    \o <<El("p.content-note", <<"Content could not be extracted automatically.">>)>>
    \o <<El("p.source", <<"Source:", " ">> \o extractDomain(baseUrl))>>

\* extractor.ts:418-441  (baseUrl is the url of the fetched page)
createFallbackContent(pageTitle, description, baseUrl) ==
  <<El("h1", pageTitle)>>
    \o (IF description # Null THEN <<El("p.description", description[1])>> ELSE <<>>)
    \o <<El("p.content-note",
            IF isExactDomain(baseUrl, youtube) \/ isExactDomain(baseUrl, youtu_be)
              THEN <<"This is a YouTube video.">>
            ELSE IF isExactDomain(baseUrl, twitter) \/ isExactDomain(baseUrl, x_com)
              THEN <<"This is a social media post.">>
            ELSE <<"Content could not be extracted automatically.">>)>>
    \o <<El("p.source", <<"Source:", " ">> \o extractDomain(baseUrl))>>

\* ---- the image pipeline ---------------------------------------------------
\* createHash('md5').update(imageUrl).digest('hex'): a digest that names
\* what was hashed.
md5(data) == <<"md5">> \o data
Filename(imageUrl) == md5(imageUrl) \o <<".webp">>
AssetPath(filename) == <<"/assets/">> \o filename

\* What a fetch of an image can bring: a response that is not ok (or no
\* response), bytes sharp cannot read, or an image.
Bytes == {"b1", "b2"}
Responses ==
  {[ok |-> FALSE, image |-> FALSE, bytes |-> "b1"]}
    \cup [ok : {TRUE}, image : BOOLEAN, bytes : Bytes]

\* A pipeline that names the file after the bytes it downloaded.
downloadAndOptimizeImageByContent(imageUrl, response) ==
  IF response.ok /\ response.image THEN Some(md5(<<response.bytes>>) \o <<".webp">>) ELSE Null

\* extractor.ts:346-374  what the call returns: the file name, or undefined
\* (Null) when anything inside has thrown
downloadAndOptimizeImage(imageUrl, response) ==
  IF response.ok /\ response.image THEN Some(Filename(imageUrl)) ELSE Null

\* extractor.ts:361-367  toFile: the directory after the call
Stored(dir, imageUrl, response) ==
  LET filename == downloadAndOptimizeImage(imageUrl, response)
  IN  IF filename = Null THEN dir
      ELSE {f \in dir : f.name # filename[1]}
             \cup {[name |-> filename[1], webp |-> response.bytes]}

\* extractor.ts:319, 322  the <img> tags the regex matches: [^>]+ is greedy,
\* so the captured src is the value of the last attribute whose name ends in
\* src (src, data-src).
SrcLike(tag) == {i \in 1..Len(tag.attrs) : tag.attrs[i].name \in {"src", "data-src"}}
Matched(piece) == piece.kind = "img" /\ SrcLike(piece) # {}
Src(tag) == tag.attrs[Max(SrcLike(tag))].value

\* extractor.ts:334  fullImgTag.replace(src, path): String.replace with a
\* string pattern replaces the first occurrence of the text in the tag
Occurs(tag, src) == {i \in 1..Len(tag.attrs) : tag.attrs[i].value = src}
ReplaceInTag(tag, src, path) ==
  [tag EXCEPT !.attrs = [@ EXCEPT ![Min(Occurs(tag, src))].value = path]]

\* extractor.ts:335  processedContent.replace(fullImgTag, newImgTag)
TagAt(html, tag) == {i \in 1..Len(html) : html[i] = tag}
ReplaceInContent(html, tag, newTag) ==
  IF TagAt(html, tag) = {} THEN html ELSE [html EXCEPT ![Min(TagAt(html, tag))] = newTag]

\* ---- extractFromUrl, step by step -----------------------------------------
\* extractor.ts:100
FetchError == [isError |-> TRUE, message |-> "Failed to fetch URL: 500"]

ExStart ==
  [pc |-> "fetch", title |-> <<>>, content |-> <<>>, image |-> Null, wordCount |-> 0,
   readingTime |-> 0, matches |-> <<>>, paths |-> <<>>, fetched |-> <<>>, thrown |-> Null]

\* extractor.ts:126-143  title and content, from Readability's article or,
\* when parse() returned null, from the document's metadata
ParsedTitle ==
  IF page.article # Null /\ page.article[1].title # <<>>
    THEN page.article[1].title ELSE extractTitle(page)
ParsedContent ==
  IF page.article # Null THEN page.article[1].content
  ELSE createFallbackContent(extractTitle(page), extractDescription(page), page.url)

\* extractor.ts:150  article?.textContent || this.sanitizeHtml(content)
PlainText ==
  IF page.article # Null /\ page.article[1].textContent # <<>>
    THEN page.article[1].textContent ELSE sanitizeHtml(ex.content)

\* extractor.ts:90-143  the page is fetched; a response that is not ok makes
\* the call throw, else the document is parsed and title and content are set
extractFromUrl ==
  /\ ex.pc = "fetch"
  /\ ex' = IF page.ok
             THEN [ex EXCEPT !.pc = "lead", !.title = ParsedTitle, !.content = ParsedContent]
             ELSE [ex EXCEPT !.pc = "thrown", !.thrown = Some(FetchError)]
  /\ UNCHANGED <<queueVars, retryNotFound, startup, args, ret, page, assets, imageLog>>

\* extractor.ts:145-151 and 289-315  the lead image is the first element with
\* a src among the selectors; whatever its download brings is the image field
\* (downloadAndOptimizeImage does not throw).  Then the words are counted.
extractAndOptimizeImage(response) ==
  /\ ex.pc = "lead"
  /\ ex' = [ex EXCEPT !.pc = "images",
                      !.image = IF page.lead = Null THEN Null
                                ELSE downloadAndOptimizeImage(page.lead[1], response),
                      !.fetched = IF page.lead = Null THEN @ ELSE Append(@, response),
                      !.wordCount = countWords(PlainText),
                      !.readingTime = readingTime(countWords(PlainText)),
                      !.matches = SelectSeq(ex.content, Matched)]
  /\ assets' = IF page.lead = Null THEN assets ELSE Stored(assets, page.lead[1], response)
  /\ UNCHANGED <<queueVars, retryNotFound, startup, args, ret, page, imageLog>>

\* extractor.ts:324-341  one turn of the loop over the matched tags
processImagesInContent(response) ==
  /\ ex.pc = "images" /\ ex.matches # <<>>
  /\ LET fullImgTag == Head(ex.matches)
         src == Src(fullImgTag)
         optimizedPath == downloadAndOptimizeImage(src, response)
     IN  /\ ex' = [ex EXCEPT !.matches = Tail(@),
                             !.paths = Append(@, optimizedPath),
                             !.fetched = Append(@, response),
                             !.content =
                               IF optimizedPath = Null THEN @
                               ELSE ReplaceInContent(@, fullImgTag,
                                      ReplaceInTag(fullImgTag, src, AssetPath(optimizedPath[1])))]
         /\ assets' = Stored(assets, src, response)
  /\ UNCHANGED <<queueVars, retryNotFound, startup, args, ret, page, imageLog>>

\* extractor.ts:156-167  the result is returned
extractFromHtmlReturns ==
  /\ ex.pc = "images" /\ ex.matches = <<>>
  /\ ex' = [ex EXCEPT !.pc = "returned"]
  /\ UNCHANGED <<queueVars, retryNotFound, startup, args, ret, page, assets, imageLog>>

\* queue.ts:79-99  the extractor has returned to the handler of job j
extractorReturned(j) ==
  /\ ex.pc = "returned"
  /\ markCompleted(j)

\* queue.ts:79, 102-120  the extractor has thrown in the handler of job j
extractorThrew(j) ==
  /\ ex.pc = "thrown"
  /\ markFailed(j, ex.thrown[1])

\* ---- the pages ------------------------------------------------------------
MaxTextLen == 5
MaxImages == 2

imgA == <<Scheme, "a", ".", "p", "n", "g">>
imgB == <<Scheme, "b", ".", "p", "n", "g">>
ImageUrls == {imgA, imgB}

PageUrls ==
  {<<Scheme>> \o www \o youtube \o <<"/", "w">>, <<Scheme>> \o youtu_be \o <<"/", "v">>,
   <<Scheme>> \o evilyoutube, <<Scheme>> \o x_com \o <<"/", "p">>, <<Scheme>> \o example}

Plain ==
  [url |-> <<Scheme>> \o example, ok |-> TRUE,
   article |-> Some([title |-> <<"A">>, content |-> <<El("p", <<"w", " ", "w">>)>>,
                     textContent |-> <<"w", " ", "w">>]),
   h1 |-> Null, ogTitle |-> Null, twitterTitle |-> Null, titleTag |-> Some(<<"T">>),
   description |-> Null, lead |-> Null]

\* Pages whose fetch fails.
FailedPages == {[Plain EXCEPT !.ok = FALSE]}

\* Pages on which Readability finds no article.
FallbackPages ==
  {[Plain EXCEPT !.article = Null, !.url = u, !.h1 = h, !.ogTitle = o, !.titleTag = t,
                 !.description = d, !.lead = l] :
     u \in PageUrls, h \in {Null, Some(<<" ">>), Some(<<"H">>)},
     o \in {Null, Some(<<" ", "O">>)}, t \in {Null, Some(<<"T">>)},
     d \in {Null, Some(<<"D">>)}, l \in {Null, Some(imgA)}}

\* Articles with up to MaxImages <img> tags in their content.
Tags ==
  {Img(<<Attr("src", imgA)>>), Img(<<Attr("src", imgB)>>),
   Img(<<Attr("data-src", imgA), Attr("src", imgA)>>), Img(<<Attr("alt", imgB)>>)}
ImagePages ==
  {[Plain EXCEPT !.article = Some([title |-> <<"A">>, content |-> c, textContent |-> <<"w">>]),
                 !.lead = l] :
     c \in UNION {[1..n -> Tags] : n \in 0..MaxImages}, l \in {Null, Some(imgB)}}

\* Articles with a text of up to MaxTextLen characters, or of about 200 or
\* 400 words; an article whose textContent is empty has an empty content or
\* one of whitespace.
Texts ==
  UNION {[1..n -> {"w", " "}] : n \in 0..MaxTextLen}
    \cup {Words(n) : n \in {199, 200, 201, 400, 401}}
TextPages ==
  {[Plain EXCEPT !.article = Some([title |-> <<>>, content |-> <<El("p", t)>>, textContent |-> t])] :
     t \in Texts}
    \cup {[Plain EXCEPT !.article = Some([title |-> <<>>, content |-> c, textContent |-> <<>>])] :
            c \in {<<>>, <<El("p", <<" ", " ">>)>>, <<El("p", <<"w", " ", " ", "w">>)>>}}

Pages == FailedPages \cup FallbackPages \cup ImagePages \cup TextPages

\* The queue while the handler of job 1, the only job, waits for the extractor
\* (queue.ts:79): the article has been set to extracting.
Attempting ==
  /\ queueInit = TRUE
  /\ exists = [a \in Articles |-> a = 1]
  /\ extractionStatus = [a \in Articles |-> IF a = 1 THEN "extracting" ELSE "pending"]
  /\ extractionError = [a \in Articles |-> Null]
  /\ title = [a \in Articles |-> TemporaryTitle]
  /\ content = [a \in Articles |-> Null]
  /\ stale = [a \in Articles |-> FALSE]
  /\ jobs = <<[NewJob(1, "post") EXCEPT !.state = "running", !.pc = "extract", !.runs = 1]>>
  /\ fifo = <<>>
  /\ uninitRejected = 0
  /\ cleanup = IdleCleanup
  /\ statusLog = [a \in Articles |-> IF a = 1 THEN <<"pending", "extracting">> ELSE <<>>]
  /\ retryNotFound = 0
  /\ startup = NotFollowed

InitExtractor ==
  /\ Attempting
  /\ page \in Pages
  /\ ex = ExStart
  /\ assets = {}
  /\ args = Null /\ ret = Null /\ imageLog = <<>>

NextExtractor ==
  \/ extractFromUrl
  \/ \E response \in Responses : extractAndOptimizeImage(response)
  \/ \E response \in Responses : processImagesInContent(response)
  \/ extractFromHtmlReturns
  \/ extractorReturned(1)
  \/ extractorThrew(1)

SpecExtractor == InitExtractor /\ [][NextExtractor]_vars

\* ---- the image pipeline called on its own ---------------------------------
MaxImageCalls == 3

InitImages ==
  /\ QueueInit
  /\ assets = {}
  /\ imageLog = <<>>
  /\ args = Null /\ ret = Null /\ page = Null /\ ex = Null

\* extractor.ts:346-374  one call, with what the fetch brings
downloadAndOptimizeImageCall(imageUrl, response) ==
  /\ Len(imageLog) < MaxImageCalls
  /\ imageLog' = Append(imageLog, [imageUrl |-> imageUrl, response |-> response,
                                   filename |-> downloadAndOptimizeImage(imageUrl, response)])
  /\ assets' = Stored(assets, imageUrl, response)
  /\ UNCHANGED <<queueVars, retryNotFound, startup, args, ret, page, ex>>

NextImages == \E imageUrl \in ImageUrls : \E response \in Responses :
                downloadAndOptimizeImageCall(imageUrl, response)

SpecImages == InitImages /\ [][NextImages]_vars

\* ---- what the steps look like from outside -------------------------------
\* Job j has applied the markExtracting write of its current attempt.
Extracting(j) == jobs[j].state = "running" /\ jobs[j].pc = "extract"

\* In this step the attempt of job j ends (markCompleted or markFailed).
AttemptEnds(j) == j <= Len(jobs) /\ Extracting(j) /\ jobs'[j].state # "running"

\* In this step the attempt of job j ends in the catch block.
AttemptFails(j) == AttemptEnds(j) /\ jobs'[j].retries = jobs[j].retries + 1

\* In this step job j applies its markExtracting write.
AttemptMarks(j) ==
  /\ j <= Len(jobs) /\ jobs[j].state = "running" /\ jobs[j].pc = "mark"
  /\ jobs'[j].pc = "extract"

\* In this step the Reaper marks article a failed.
ReaperMarks(a) ==
  /\ cleanup.pc = "mark" /\ cleanup'.pc = "reschedule"
  /\ Head(cleanup.list) = a

\* The Reaper has found article a stuck and has not yet pushed the job for it.
ReaperOwes(a) ==
  /\ cleanup.pc \in {"mark", "reschedule"}
  /\ \E i \in 1..Len(cleanup.list) : cleanup.list[i] = a

Contains(co, url) == co # Null /\ co[1].url = url

\* ---- C1 --------------------------------------------------------------------
\* C1: on an initialized queue addJob resolves as soon as the job has been
\* accepted (it does not wait for the handler and never rejects because the
\* job fails); it rejects only while the queue is not initialized, and then
\* no job is enqueued.
C1_AddJobResolvesOnAccept ==
  /\ \A j \in 1..Len(jobs) : jobs[j].promise = "resolved"
  /\ (~queueInit => jobs = <<>>)
  /\ (uninitRejected > 0 => jobs = <<>> \/ queueInit)

\* ---- C2 --------------------------------------------------------------------
\* C2: for an article with exactly one job (none other pushed or owed by the
\* Reaper) whose attempts have not failed, the extractionStatus values written
\* are a prefix of pending, extracting, completed, and exactly these three
\* once the job has finished on its first attempt.
OnlyJob(a, j) == JobsOf(a) = {j} /\ ~ReaperOwes(a)

C2_SingleSuccessfulRun ==
  \A a \in Articles : \A j \in 1..Len(jobs) :
    (exists[a] /\ OnlyJob(a, j) /\ jobs[j].retries = 0) =>
      /\ jobs[j].state = "queued" => statusLog[a] = <<"pending">>
      /\ (jobs[j].state = "running" /\ jobs[j].pc = "mark") => statusLog[a] = <<"pending">>
      /\ Extracting(j) => statusLog[a] = <<"pending", "extracting">>
      /\ (jobs[j].state = "finished" /\ jobs[j].runs = 1) =>
            statusLog[a] = <<"pending", "extracting", "completed">>

C2_Witness ==
  \E a \in Articles : \E j \in 1..Len(jobs) :
    /\ exists[a] /\ OnlyJob(a, j)
    /\ jobs[j].state = "finished" /\ jobs[j].runs = 1
    /\ statusLog[a] = <<"pending", "extracting", "completed">>

\* ---- C3 --------------------------------------------------------------------
\* C3: after every attempt in which the extractor fails, whatever it threw,
\* the article is failed, its extractionError is a non-empty text and its
\* content contains the url of the job.
C3_FailureVisible ==
  [][\A j \in 1..Len(jobs) : AttemptFails(j) =>
       /\ extractionStatus'[jobs[j].art] = "failed"
       /\ extractionError'[jobs[j].art] # Null
       /\ extractionError'[jobs[j].art] # Some("")
       /\ Contains(content'[jobs[j].art], jobs[j].url)]_vars

\* ---- C4 --------------------------------------------------------------------
\* C4: a job all of whose attempts fail is executed exactly maxRetries = 3
\* times and then dropped: no job is ever executed a 4th time, a job is
\* dropped as failed exactly when 3 of its executions have failed, and a
\* dropped job is neither queued nor waiting for an attempt.
C4_RetryExhaustion ==
  \A j \in 1..Len(jobs) :
    /\ jobs[j].runs <= 3
    /\ jobs[j].state = "failed" <=> jobs[j].retries = 3
    /\ jobs[j].state = "failed" => jobs[j].runs = 3 /\ jobs[j].promise = "rejected"
    /\ jobs[j].state = "failed" => \A i \in 1..Len(fifo) : fifo[i] # j
    /\ (jobs[j].state = "waiting" \/ jobs[j].state = "queued") => jobs[j].runs = jobs[j].retries

C4_Witness == \E j \in 1..Len(jobs) : jobs[j].state = "failed" /\ jobs[j].runs = 3

\* ---- C5 --------------------------------------------------------------------
\* C5: a run of cleanupStuckExtractions takes every article that is extracting
\* and older than 10 minutes, once; for each it first sets the article to
\* failed with the timeout message and then pushes exactly one job carrying the
\* article's id and url (and no step other than this pushes a job while the
\* Reaper owes one).
C5_StuckRecovery ==
  [][ /\ (cleanup.pc = "idle" /\ cleanup'.pc = "mark") =>
            /\ {cleanup'.list[i] : i \in 1..Len(cleanup'.list)} = Stuck
            /\ Len(cleanup'.list) = Cardinality(Stuck)
      /\ \A a \in Articles : ReaperMarks(a) =>
            /\ extractionStatus'[a] = "failed"
            /\ extractionError'[a] = Some(TimeoutMessage)
            /\ jobs' = jobs
      /\ (cleanup.pc = "reschedule" /\ cleanup' # cleanup) =>
            /\ extractionStatus = extractionStatus'
            /\ Len(jobs') = Len(jobs) + 1
            /\ jobs'[Len(jobs')].art = Head(cleanup.list)
            /\ jobs'[Len(jobs')].url = Url(Head(cleanup.list))
            /\ jobs'[Len(jobs')].state = "queued"
            /\ fifo' = Append(fifo, Len(jobs'))
            /\ cleanup'.list = Tail(cleanup.list)
            /\ cleanup'.pc = "await"
      /\ (cleanup.pc = "reschedule" /\ cleanup' = cleanup) =>
            \A j \in 1..Len(jobs') : j > Len(jobs) => jobs'[j].origin # "cleanup"
    ]_vars

C5_Witness ==
  /\ cleanup.pc = "await"
  /\ jobs[cleanup.job].state = "queued" /\ jobs[cleanup.job].runs = 0
  /\ jobs[cleanup.job].origin = "cleanup"
  /\ jobs[cleanup.job].url = Url(jobs[cleanup.job].art)
  /\ extractionStatus[jobs[cleanup.job].art] = "failed"
  /\ extractionError[jobs[cleanup.job].art] = Some(TimeoutMessage)

\* ---- C6 --------------------------------------------------------------------
\* C6: every change of an article's extractionStatus is one of pending to
\* extracting, extracting to completed, extracting to failed, failed to
\* extracting.
StateMachine == { <<"pending", "extracting">>, <<"extracting", "completed">>,
                  <<"extracting", "failed">>, <<"failed", "extracting">> }

C6_OnlyStateMachineChanges ==
  [][\A a \in Articles :
       (exists[a] /\ extractionStatus'[a] # extractionStatus[a]) =>
          <<extractionStatus[a], extractionStatus'[a]>> \in StateMachine]_vars

\* ---- C7 --------------------------------------------------------------------
\* C7 as claimed: an article goes from failed to extracting only through the
\* first attempt of a job pushed by an explicit retry or by the Reaper, never
\* through the queue's automatic re-attempt of a job.
C7_NoAutomaticReentry ==
  [][\A j \in 1..Len(jobs) :
       (AttemptMarks(j) /\ extractionStatus[jobs[j].art] = "failed") =>
          jobs[j].retries = 0 /\ jobs[j].origin \in {"retry", "cleanup"}]_vars

\* C7 as amended: an article goes from failed to extracting only in the step
\* in which a worker applies the markExtracting write of an attempt of a job
\* for that article, be it the first attempt of a job or an automatic
\* re-attempt.
C7_ReentryByAttempt ==
  [][\A a \in Articles :
       (exists[a] /\ extractionStatus[a] = "failed" /\ extractionStatus'[a] = "extracting") =>
          \E j \in JobsOf(a) : AttemptMarks(j)]_vars

\* The only job of the article has failed before and is extracting again.
C7_Witness ==
  \E a \in Articles : \E j \in 1..Len(jobs) :
    /\ exists[a] /\ JobsOf(a) = {j} /\ jobs[j].origin = "post"
    /\ cleanup = IdleCleanup
    /\ jobs[j].retries >= 1 /\ Extracting(j)
    /\ extractionStatus[a] = "extracting"

\* ---- C8 --------------------------------------------------------------------
\* C8: once an extraction of an article has completed, a later attempt for
\* the article that fails leaves its title and content unchanged.
C8_FailedRetryKeepsContent ==
  [][\A j \in 1..Len(jobs) :
       (AttemptFails(j) /\ \E k \in JobsOf(jobs[j].art) : jobs[k].state = "finished") =>
          /\ title'[jobs[j].art] = title[jobs[j].art]
          /\ content'[jobs[j].art] = content[jobs[j].art]]_vars

\* ---- C9 --------------------------------------------------------------------
\* C9 as claimed: an article leaves extracting only in a step in which a
\* worker that is executing a job for the article ends its attempt.
C9_OnlyOwnerLeavesExtracting ==
  [][\A a \in Articles :
       (exists[a] /\ extractionStatus[a] = "extracting" /\ extractionStatus'[a] # "extracting") =>
          \E j \in JobsOf(a) : AttemptEnds(j)]_vars

\* C9 as amended: an article leaves extracting only in a step in which a
\* worker that is executing a job for the article ends its attempt, or in the
\* step in which the Reaper marks the article failed.
C9_OwnerOrReaperLeavesExtracting ==
  [][\A a \in Articles :
       (exists[a] /\ extractionStatus[a] = "extracting" /\ extractionStatus'[a] # "extracting") =>
          \/ \E j \in JobsOf(a) : AttemptEnds(j)
          \/ ReaperMarks(a)]_vars

\* The Reaper has just marked failed an article whose job is still running.
C9_Witness ==
  /\ cleanup.pc = "reschedule"
  /\ extractionStatus[Head(cleanup.list)] = "failed"
  /\ extractionError[Head(cleanup.list)] = Some(TimeoutMessage)
  /\ \E j \in JobsOf(Head(cleanup.list)) : Extracting(j)

\* ---- C10 -------------------------------------------------------------------
\* C10 as claimed: no article is pending while a job for it is queued,
\* waiting for a retry or running.
C10_NoPendingOnceAccepted ==
  \A a \in Articles : \A j \in JobsOf(a) :
    jobs[j].state \in {"queued", "waiting", "running"} => extractionStatus[a] # "pending"

\* A job has applied the markExtracting write of one of its attempts.
HasMarked(j) == Extracting(j) \/ jobs[j].retries > 0 \/ jobs[j].state = "finished"

\* C10 as amended: an article is pending exactly as long as no attempt of any
\* job for it has applied its markExtracting write; a job that is queued, or
\* started and not yet past that write, leaves the article pending.
C10_PendingUntilFirstMark ==
  \A a \in Articles : exists[a] =>
    (extractionStatus[a] = "pending" <=> \A j \in JobsOf(a) : ~HasMarked(j))

\* One job of the article is extracting while another is still queued.
C10_Witness ==
  \E a \in Articles : \E j, k \in JobsOf(a) :
    /\ Extracting(j) /\ jobs[k].state = "queued" /\ jobs[k].runs = 0
    /\ extractionStatus[a] = "extracting"

\* ---- C11 -------------------------------------------------------------------
\* C11: at most 2 jobs are being executed by the handler at any time, whatever
\* the number of jobs waiting in the FIFO, and a job starts only in a state in
\* which fewer than 2 are being executed.
C11_AtMostTwoRunning ==
  [][ /\ Cardinality(Running)' <= 2
      /\ \A j \in 1..Len(jobs) :
           (jobs[j].state # "running" /\ jobs'[j].state = "running") =>
              Cardinality(Running) < 2 ]_vars

\* Two jobs are being executed and a third one waits in the FIFO.
C11_Witness == Cardinality(Running) = 2 /\ fifo # <<>>

\* ---- C12 -------------------------------------------------------------------
\* In this step a job for article a applies a write, or the Reaper does.
WritesTo(a) ==
  \/ \E k \in JobsOf(a) : AttemptMarks(k) \/ AttemptEnds(k)
  \/ ReaperMarks(a)

\* C12: the step in which a job is dropped after its last failed attempt leaves
\* the article failed with the message of the error of that attempt (the error
\* the push callback is called with) as extractionError; the queue's own steps
\* (starting a job, queueing it again after the retry delay) write nothing to
\* the articles, and the row of a dropped job stays as it was left as long as
\* no job for the article and no Reaper run writes to it.
C12_DroppedJobLeavesFailed ==
  [][ /\ \A j \in 1..Len(jobs) :
           (AttemptFails(j) /\ jobs'[j].state = "failed") =>
              /\ jobs'[j].reason # Null
              /\ extractionStatus'[jobs[j].art] = "failed"
              /\ extractionError'[jobs[j].art] = Some(errorMessage(jobs'[j].reason[1]))
      /\ (fifo' # fifo /\ Len(jobs') = Len(jobs)) =>
              /\ extractionStatus' = extractionStatus /\ extractionError' = extractionError
              /\ title' = title /\ content' = content
      /\ \A a \in Articles : \A j \in JobsOf(a) :
           (jobs[j].state = "failed" /\ ~WritesTo(a)) =>
              /\ extractionStatus'[a] = extractionStatus[a]
              /\ extractionError'[a] = extractionError[a] ]_vars

\* A job has been dropped, no other job for its article has started, and the
\* article shows the message of the error the job was dropped with.
C12_Witness ==
  \E a \in Articles : \E j \in JobsOf(a) :
    /\ jobs[j].state = "failed" /\ jobs[j].reason # Null
    /\ \A k \in JobsOf(a) : k # j => jobs[k].runs = 0
    /\ extractionStatus[a] = "failed"
    /\ extractionError[a] = Some(errorMessage(jobs[j].reason[1]))

\* ---- C18 -------------------------------------------------------------------
\* C18: an article has an extractionError only while its status is failed.
C18_ErrorOnlyWhenFailed ==
  \A a \in Articles : extractionError[a] # Null => extractionStatus[a] = "failed"

\* A job has failed on the article, and an attempt (of this or of another job)
\* has since set it to extracting, with the error cleared.
C18_Witness ==
  \E a \in Articles :
    /\ exists[a] /\ extractionStatus[a] = "extracting" /\ extractionError[a] = Null
    /\ \E j \in JobsOf(a) : jobs[j].retries > 0
    /\ \E k \in JobsOf(a) : Extracting(k)
    /\ Cardinality(JobsOf(a)) > 1

\* ---- C19 -------------------------------------------------------------------
\* C19: a step that leaves an article completed either is the markCompleted
\* write of a job for the article, which sets status, title and content at once
\* to what the extractor returned to that job, or found it completed and leaves
\* title and content as they are; so a completed article always shows the
\* fields of the latest extraction that succeeded.  (wordCount, readingTime and
\* the other extracted columns are written by the same update, queue.ts:82-99,
\* and by no other; title and content stand for them.)
C19_CompletedShowsLatestExtraction ==
  [][\A a \in Articles :
       (exists[a] /\ extractionStatus'[a] = "completed") =>
          \/ \E j \in JobsOf(a) :
               /\ AttemptEnds(j) /\ jobs'[j].state = "finished"
               /\ title'[a] = Extracted(j).title
               /\ content'[a] = Some(Extracted(j).content)
               /\ extractionError'[a] = Null
          \/ /\ extractionStatus[a] = "completed"
             /\ title'[a] = title[a] /\ content'[a] = content[a]]_vars

\* Two extractions of an article have succeeded; it shows the later one's fields.
C19_Witness ==
  \E a \in Articles : \E j, k \in JobsOf(a) :
    /\ j < k /\ jobs[j].state = "finished" /\ jobs[k].state = "finished"
    /\ extractionStatus[a] = "completed"
    /\ title[a] = Extracted(j).title /\ content[a] = Some(Extracted(j).content)

\* ---- C20 -------------------------------------------------------------------
\* In this step retryExtractionJob(a) reaches addJob (called by the retry route
\* or by the Reaper).
RetryPushes(a) ==
  /\ Len(jobs') > Len(jobs)
  /\ jobs'[Len(jobs')].origin \in {"retry", "cleanup"}
  /\ jobs'[Len(jobs')].art = a

\* C20: a call of retryExtractionJob for an article that is in the table
\* appends exactly one job to the queue, with the article's id and the url
\* stored on it (the userId is copied from the row in the same way), and
\* changes no column of the article; a call with an id that is not in the
\* table throws 'Article not found' and pushes nothing.
C20_RetryEnqueuesOne ==
  [][ /\ \A a \in Articles : RetryPushes(a) =>
            /\ exists[a]
            /\ jobs' = Append(jobs, jobs'[Len(jobs')])
            /\ jobs'[Len(jobs')].url = Url(a)
            /\ jobs'[Len(jobs')].state = "queued" /\ jobs'[Len(jobs')].runs = 0
            /\ fifo' = Append(fifo, Len(jobs'))
            /\ extractionStatus' = extractionStatus /\ extractionError' = extractionError
            /\ title' = title /\ content' = content
            /\ retryNotFound' = retryNotFound
      /\ retryNotFound' # retryNotFound =>
            /\ \E a \in Articles : ~exists[a]
            /\ jobs' = jobs /\ fifo' = fifo
            /\ extractionStatus' = extractionStatus /\ extractionError' = extractionError
            /\ title' = title /\ content' = content /\ exists' = exists ]_vars

\* A retry of a completed article has pushed a job that is still queued, the
\* article still completed; and a call for an unknown id has been refused.
C20_Witness ==
  /\ retryNotFound = 1
  /\ \E j \in 1..Len(jobs) :
       /\ jobs[j].origin = "retry" /\ jobs[j].state = "queued" /\ jobs[j].runs = 0
       /\ extractionStatus[jobs[j].art] = "completed"

\* ---- C13 -------------------------------------------------------------------
\* The pages of youtube.com (or a name under it) and of youtu.be.
YouTubePages ==
  {<<Scheme>> \o www \o youtube \o <<"/", "w">>, <<Scheme>> \o youtu_be \o <<"/", "v">>}

HasPiece(html, kind, text) == \E i \in 1..Len(html) : html[i].kind = kind /\ html[i].text = text

\* C13: when the fetch succeeds and Readability returns null the extractor
\* does not throw; its content is the fallback content, which holds the title
\* found in the document (the og:title when the page has no h1) and, exactly
\* for a youtube.com or youtu.be page, the note for videos; and the attempt
\* ends with the job finished and the article completed, without an error.
C13_NullReadabilityCompletes ==
  (page.ok /\ page.article = Null) =>
    /\ ex.pc # "thrown"
    /\ ex.pc \in {"lead", "images", "returned"} =>
         /\ HasPiece(ex.content, "h1", ex.title)
         /\ (page.h1 = Null /\ page.ogTitle # Null) => ex.title = trim(page.ogTitle[1])
         /\ (page.h1 = Null /\ page.ogTitle = Null /\ page.titleTag = Null) =>
               ex.title = <<"Untitled Article">>
         /\ HasPiece(ex.content, "p.content-note", <<"This is a YouTube video.">>)
               <=> page.url \in YouTubePages
    /\ jobs[1].state # "running" =>
         /\ ex.pc = "returned"
         /\ jobs[1].state = "finished"
         /\ extractionStatus[1] = "completed" /\ extractionError[1] = Null

\* The attempt for a YouTube page with an og:title and nothing Readability
\* can use has ended with the article completed.
C13_Witness ==
  /\ page.ok /\ page.article = Null /\ page.url \in YouTubePages
  /\ page.h1 = Null /\ page.ogTitle # Null
  /\ ex.pc = "returned" /\ jobs[1].state = "finished"
  /\ extractionStatus[1] = "completed"
  /\ HasPiece(ex.content, "h1", <<"O">>)
  /\ HasPiece(ex.content, "p.content-note", <<"This is a YouTube video.">>)

\* ---- C14 -------------------------------------------------------------------
\* The content Readability returned, and the place of its i-th piece among
\* the <img> tags the loop of processImagesInContent goes through.
Original == page.article[1].content
MatchNo(i) == Cardinality({k \in 1..i : Matched(Original[k])})
SrcOf(tag) == tag.attrs[CHOOSE k \in 1..Len(tag.attrs) : tag.attrs[k].name = "src"].value
HasSrc(tag, value) ==
  \E k \in 1..Len(tag.attrs) : tag.attrs[k].name = "src" /\ tag.attrs[k].value = value

\* C14: whatever image downloads fail, extractFromHtml returns; in the content
\* it returns every <img> whose download failed is as it was, every <img>
\* whose download succeeded has the cached local path as its src, and a lead
\* image whose download failed gives no image field.
C14_ImageFailuresContained ==
  (page.ok /\ page.article # Null) =>
    /\ ex.pc # "thrown"
    /\ ex.pc = "returned" =>
         /\ Len(ex.content) = Len(Original)
         /\ \A i \in 1..Len(Original) : Matched(Original[i]) =>
              /\ ex.paths[MatchNo(i)] = Null => ex.content[i] = Original[i]
              /\ ex.paths[MatchNo(i)] # Null =>
                   HasSrc(ex.content[i], AssetPath(Filename(SrcOf(Original[i]))))
         /\ (page.lead # Null /\ ~(ex.fetched[1].ok /\ ex.fetched[1].image)) => ex.image = Null

\* ---- C15 -------------------------------------------------------------------
\* The hostname h is the domain d or a name under it: something, a dot, d.
UnderDomain(h, d) == h = d \/ \E k \in 0..Len(h) : h = SubSeq(h, 1, k) \o <<".">> \o d

\* C15: isExactDomain(url, domain) returns true exactly when url parses as a
\* URL whose hostname in lower case is domain or ends with '.' and domain; so
\* it is false for evilyoutube.com against youtube.com, true for
\* m.youtube.com, and false for a url that does not parse.
C15_ExactOrSubdomain ==
  ret # Null =>
    /\ ret[1] = (URL(args.url) # Null /\ UnderDomain(toLowerCase(URL(args.url)[1].hostname), args.domain))
    /\ (args.url = <<Scheme>> \o evilyoutube /\ args.domain = youtube) => ret[1] = FALSE
    /\ (args.url = <<Scheme>> \o <<"m", ".">> \o youtube /\ args.domain = youtube) => ret[1] = TRUE
    /\ (args.url = <<>> \/ args.url[1] # Scheme) => ret[1] = FALSE

\* The call for https://evilyoutube.com and youtube.com has returned false.
C15_Witness ==
  /\ ret = Some(FALSE)
  /\ args.url = <<Scheme>> \o evilyoutube /\ args.domain = youtube

\* ---- C16 -------------------------------------------------------------------
\* C16: every successful call of downloadAndOptimizeImage returns the file
\* name made from the md5 of its url; so two successful calls for one url
\* return the same name, whatever calls came between them and whatever bytes
\* the url served, and the name never depends on the bytes.
C16_FilenameFromUrlOnly ==
  \A i, k \in 1..Len(imageLog) :
    (imageLog[i].filename # Null /\ imageLog[k].filename # Null) =>
      /\ imageLog[i].filename = Some(Filename(imageLog[i].imageUrl))
      /\ imageLog[i].imageUrl = imageLog[k].imageUrl => imageLog[i].filename = imageLog[k].filename

\* One url has served different bytes in two successful calls, with a call
\* for the other url between them that brought the bytes of the first.
C16_Witness ==
  /\ Len(imageLog) = 3
  /\ imageLog[1].imageUrl = imageLog[3].imageUrl /\ imageLog[2].imageUrl # imageLog[1].imageUrl
  /\ imageLog[1].filename # Null /\ imageLog[2].filename # Null /\ imageLog[3].filename # Null
  /\ imageLog[1].response.bytes # imageLog[3].response.bytes
  /\ imageLog[2].response.bytes = imageLog[1].response.bytes
  /\ imageLog[1].filename = imageLog[3].filename
  /\ Cardinality(assets) = 2

\* ---- C17 -------------------------------------------------------------------
Blank(text) == \A i \in 1..Len(text) : text[i] = " "

\* C17: the readingTime of a result is the least number of minutes of 200
\* words that holds its wordCount, and at least 1: 2 for a text of 400 words,
\* 1 for one word, and 1 for a text that is empty or blank.
C17_ReadingTimeCeiling ==
  ex.pc \in {"images", "returned"} =>
    /\ ex.readingTime * 200 >= ex.wordCount
    /\ (ex.readingTime - 1) * 200 < ex.wordCount
    /\ ex.readingTime >= 1
    /\ page.article # Null =>
         /\ page.article[1].textContent = Words(400) => ex.wordCount = 400 /\ ex.readingTime = 2
         /\ page.article[1].textContent = Words(201) => ex.readingTime = 2
         /\ page.article[1].textContent = Words(200) => ex.readingTime = 1
         /\ page.article[1].textContent = Words(1) => ex.readingTime = 1
         /\ (Blank(page.article[1].textContent) /\ Blank(StripTags(page.article[1].content))) =>
               ex.readingTime = 1

\* A result for a text of 400 words, with a readingTime of 2.
C17_Witness ==
  /\ ex.pc = "returned" /\ page.article # Null
  /\ page.article[1].textContent = Words(400)
  /\ ex.wordCount = 400 /\ ex.readingTime = 2

\* ---- C21 -------------------------------------------------------------------
\* Article a is in the list of rows a scan has returned and the loop has not
\* yet rescheduled.
InList(a, c) == \E i \in 1..Len(c.list) : c.list[i] = a

\* In this step a job for article a is pushed.
PushesFor(a) == \E j \in 1..Len(jobs') : j > Len(jobs) /\ jobs'[j].art = a

\* C21: the rows a Reaper run takes are rows that are extracting and older
\* than 10 minutes when the scan reads the table, the run takes no row later,
\* and a step of the run leaves every article that is not among them with its
\* status, error, title and content, and pushes no job for it.
C21_ReaperTouchesOnlyStuck ==
  [][ /\ (cleanup.pc = "idle" /\ cleanup'.pc = "mark") =>
            \A a \in Articles : InList(a, cleanup') =>
               exists[a] /\ extractionStatus[a] = "extracting" /\ stale[a]
      /\ cleanup.pc # "idle" =>
            \A a \in Articles : InList(a, cleanup') => InList(a, cleanup)
      /\ cleanup' # cleanup =>
            \A a \in Articles : (~InList(a, cleanup) /\ ~InList(a, cleanup')) =>
               /\ extractionStatus'[a] = extractionStatus[a]
               /\ extractionError'[a] = extractionError[a]
               /\ title'[a] = title[a] /\ content'[a] = content[a]
               /\ ~PushesFor(a) ]_vars

\* The Reaper has marked a stuck article failed while another article, which
\* became extracting after the scan's threshold, is left extracting.
C21_Witness ==
  /\ cleanup.pc = "reschedule"
  /\ extractionStatus[Head(cleanup.list)] = "failed"
  /\ \E b \in Articles :
       /\ exists[b] /\ ~InList(b, cleanup)
       /\ extractionStatus[b] = "extracting" /\ ~stale[b]

\* ---- C22 -------------------------------------------------------------------
\* C22: a step that changes the title or the content of an article finds the
\* article extracting and leaves it failed or completed; no step changes them
\* while the status before the step is completed, failed or pending.
C22_RewriteOnlyFromExtracting ==
  [][\A a \in Articles :
       (exists[a] /\ (title'[a] # title[a] \/ content'[a] # content[a])) =>
          /\ extractionStatus[a] = "extracting"
          /\ extractionStatus'[a] \in {"failed", "completed"}]_vars

\* ---- C23 -------------------------------------------------------------------
\* In this step the extractor call of job j returns or throws.
ExtractorSettles(j) ==
  \/ jobs'[j].retries # jobs[j].retries
  \/ jobs[j].state # "finished" /\ jobs'[j].state = "finished"

\* C23: every attempt of a job, the first and each re-attempt, enters the
\* handler before the markExtracting write; the extractor is called only in
\* the step that applies this write, which leaves the article extracting with
\* no extractionError and a fresh updatedAt; and an extractor call settles
\* only for an attempt that has applied the write.
C23_MarkBeforeExtract ==
  [][\A j \in 1..Len(jobs) :
       /\ (jobs[j].state # "running" /\ jobs'[j].state = "running") => jobs'[j].pc = "mark"
       /\ (jobs[j].pc # "extract" /\ jobs'[j].pc = "extract") =>
             /\ AttemptMarks(j)
             /\ extractionStatus'[jobs[j].art] = "extracting"
             /\ extractionError'[jobs[j].art] = Null
             /\ ~stale'[jobs[j].art]
       /\ ExtractorSettles(j) => Extracting(j)]_vars

\* The third attempt of a job has applied its write and waits for the extractor.
C23_Witness ==
  \E j \in 1..Len(jobs) :
    /\ jobs[j].retries = 2 /\ jobs[j].runs = 3 /\ Extracting(j)
    /\ extractionStatus[jobs[j].art] = "extracting"
    /\ extractionError[jobs[j].art] = Null

\* ---- C24 -------------------------------------------------------------------
\* C24: a retry of an article that is extracting is accepted (within the
\* model's bound on the number of jobs); the step of a retry that finds the
\* article extracting appends one job for the article and leaves every job
\* already in the queue as it is, the jobs for the same article included.
C24_RetryWhileExtractingAccepted ==
  /\ [](\A a \in Articles :
         (queueInit /\ exists[a] /\ extractionStatus[a] = "extracting"
            /\ Len(jobs) + Reserved < MaxJobs) => ENABLED retryExtractionJob(a))
  /\ [][\A a \in Articles :
         (extractionStatus[a] = "extracting" /\ Len(jobs') > Len(jobs)
            /\ jobs'[Len(jobs')].origin = "retry" /\ jobs'[Len(jobs')].art = a) =>
               /\ jobs' = Append(jobs, NewJob(a, "retry"))
               /\ fifo' = Append(fifo, Len(jobs) + 1)
               /\ extractionStatus'[a] = "extracting"]_vars

\* Two workers execute jobs for the same article at the same time, the second
\* job pushed by a retry that found the article extracting.
C24_Witness ==
  \E a \in Articles : \E j, k \in JobsOf(a) :
    /\ j < k /\ jobs[k].origin = "retry"
    /\ Extracting(j) /\ Extracting(k)
    /\ jobs[j].runs = 1 /\ jobs[k].runs = 1
    /\ Cardinality(Running) = 2

\* ---- C25 -------------------------------------------------------------------
\* The queue has discarded job j: after a success or after its last attempt.
Discarded(j) == j <= Len(jobs) /\ jobs[j].state \in {"finished", "failed"}

\* C25: under fair scheduling every job the queue has accepted is eventually
\* discarded, and the article of the job is eventually completed or failed;
\* an article all of whose jobs have been discarded is completed or failed,
\* not pending or extracting.
C25_EveryJobEnds ==
  /\ \A j \in JobIds : (j <= Len(jobs)) ~> Discarded(j)
  /\ \A j \in JobIds :
       (j <= Len(jobs)) ~>
          (j <= Len(jobs) /\ extractionStatus[jobs[j].art] \in {"completed", "failed"})
  /\ [](\A a \in Articles :
          (exists[a] /\ JobsOf(a) # {} /\ \A j \in JobsOf(a) : Discarded(j)) =>
             extractionStatus[a] \in {"completed", "failed"})

\* One job has been discarded after a success and another after its third
\* failed attempt, and no job is left in the queue.
C25_Witness ==
  /\ \E j \in 1..Len(jobs) : jobs[j].state = "finished"
  /\ \E j \in 1..Len(jobs) : jobs[j].state = "failed" /\ jobs[j].runs = 3
  /\ \A j \in 1..Len(jobs) : Discarded(j)
  /\ \A a \in Articles : exists[a] => extractionStatus[a] \in {"completed", "failed"}

\* ---- C26 -------------------------------------------------------------------
\* Job j has failed an attempt and has not yet applied the markExtracting
\* write of the next one: it waits for the retry delay, is queued again, has
\* entered the handler, or has been dropped.
BetweenAttempts(j) ==
  /\ jobs[j].retries >= 1
  /\ \/ jobs[j].state \in {"waiting", "queued", "failed"}
     \/ jobs[j].state = "running" /\ jobs[j].pc = "mark"

\* C26: every attempt that fails, the last one or not, leaves the article
\* failed with the placeholder title and the placeholder content that names
\* the job's url; so the article of a single job is failed from each failed
\* attempt until the write of the next attempt sets it to extracting again,
\* and each of its runs but the current one has failed.
C26_EveryFailedAttemptWrites ==
  /\ [][\A j \in 1..Len(jobs) : AttemptFails(j) =>
          /\ extractionStatus'[jobs[j].art] = "failed"
          /\ title'[jobs[j].art] = FailedTitle
          /\ Contains(content'[jobs[j].art], jobs[j].url)
          /\ content'[jobs[j].art][1].kind = "Failed to extract content from URL, Error"]_vars
  /\ [](\A a \in Articles : \A j \in 1..Len(jobs) :
          (exists[a] /\ OnlyJob(a, j)) =>
             /\ BetweenAttempts(j) =>
                   /\ extractionStatus[a] = "failed" /\ title[a] = FailedTitle
                   /\ jobs[j].runs = jobs[j].retries + (IF jobs[j].state = "running" THEN 1 ELSE 0)
             /\ Extracting(j) =>
                   /\ extractionStatus[a] = "extracting"
                   /\ jobs[j].runs = jobs[j].retries + 1)

\* The article is failed with the placeholder while its only job, which has
\* failed twice, waits for the retry delay before its third attempt.
C26_Witness ==
  \E a \in Articles : \E j \in 1..Len(jobs) :
    /\ exists[a] /\ OnlyJob(a, j)
    /\ jobs[j].state = "waiting" /\ jobs[j].retries = 2
    /\ extractionStatus[a] = "failed" /\ title[a] = FailedTitle
    /\ Contains(content[a], jobs[j].url)

\* ---- C27 -------------------------------------------------------------------
\* C27: a Reaper run marks a stuck article failed only when the job it pushed
\* for the previous one has been discarded, after a success or after its last
\* failed attempt; when the awaited job has failed the loop goes on with the
\* next article all the same; the number of articles found is fixed by the
\* scan, and the run returns it as cleaned whatever became of the jobs.
C27_ReaperOneAfterAnother ==
  [][ /\ \A a \in Articles : (ReaperMarks(a) /\ cleanup.job # 0) =>
            /\ Discarded(cleanup.job)
            /\ jobs[cleanup.job].origin = "cleanup" /\ jobs[cleanup.job].art # a
      /\ (cleanup.pc = "await" /\ cleanup'.pc # "await") =>
            /\ Discarded(cleanup.job)
            /\ cleanup.list # <<>> => cleanup'.pc = "mark" /\ cleanup'.list = cleanup.list
            /\ cleanup.list = <<>> =>
                  cleanup'.pc = "idle" /\ cleanup'.cleaned = Some(cleanup.found)
      /\ (cleanup.pc = "idle" /\ cleanup' # cleanup) =>
            /\ cleanup'.found = Cardinality(Stuck)
            /\ cleanup'.found = 0 => cleanup'.cleaned = Some(0)
      /\ cleanup.pc # "idle" => cleanup'.found = cleanup.found ]_vars

\* The Reaper found two stuck articles; the job for the first has failed its
\* three attempts, and the Reaper has gone on to mark the second one failed.
C27_Witness ==
  /\ cleanup.pc = "reschedule" /\ cleanup.found = 2 /\ cleanup.job # 0
  /\ jobs[cleanup.job].state = "failed" /\ jobs[cleanup.job].runs = 3
  /\ extractionStatus[Head(cleanup.list)] = "failed"
  /\ extractionError[Head(cleanup.list)] = Some(TimeoutMessage)

\* ---- C28 -------------------------------------------------------------------
\* C28: the step in which the Reaper marks an article failed sets its status,
\* its error and its updatedAt and leaves its title and content as they were;
\* so an article that shows the Reaper's message and none of whose jobs has
\* failed an attempt has neither the placeholder title nor a content that
\* names its url.
C28_ReaperKeepsTitleAndContent ==
  /\ [][\A a \in Articles : ReaperMarks(a) =>
          /\ extractionStatus'[a] = "failed"
          /\ extractionError'[a] = Some(TimeoutMessage)
          /\ ~stale'[a]
          /\ title'[a] = title[a] /\ content'[a] = content[a]]_vars
  /\ [](\A a \in Articles :
          (exists[a] /\ extractionError[a] = Some(TimeoutMessage)
             /\ \A j \in JobsOf(a) : jobs[j].retries = 0) =>
                title[a] # FailedTitle /\ ~Contains(content[a], Url(a)))

\* The Reaper has marked failed an article stuck in its first attempt: the
\* article is failed and still has the temporary title and no content.
C28_Witness ==
  /\ cleanup.pc = "reschedule"
  /\ extractionStatus[Head(cleanup.list)] = "failed"
  /\ extractionError[Head(cleanup.list)] = Some(TimeoutMessage)
  /\ title[Head(cleanup.list)] = TemporaryTitle
  /\ content[Head(cleanup.list)] = Null

\* ---- C29 -------------------------------------------------------------------
\* Article a was in the table when the process started, and this process has
\* pushed no job for it.
LeftAlone(a) == a \in startup.left /\ JobsOf(a) = {}

\* C29: the startup run of the Reaper takes exactly the rows that are
\* extracting and older than 10 minutes; a row the old process left, as long
\* as no job has been pushed for it and no Reaper run has taken it, keeps its
\* status, error, title and content in every step; a Reaper run takes it only
\* if it is extracting and older than 10 minutes, and the only other step that
\* pushes a job for it is an explicit retry, served once the server listens.
C29_StartupRecoversOnlyStuck ==
  [][ /\ (startup.pc = "starting" /\ cleanup = IdleCleanup /\ cleanup' # cleanup) =>
            \A a \in Articles :
               InList(a, cleanup') <=>
                  (exists[a] /\ extractionStatus[a] = "extracting" /\ stale[a])
      /\ \A a \in Articles : (LeftAlone(a) /\ ~InList(a, cleanup)) =>
            /\ InList(a, cleanup') =>
                  /\ extractionStatus[a] = "extracting" /\ stale[a]
                  /\ Listening \/ cleanup = IdleCleanup
            /\ ~InList(a, cleanup') =>
                  /\ extractionStatus'[a] = extractionStatus[a]
                  /\ extractionError'[a] = extractionError[a]
                  /\ title'[a] = title[a] /\ content'[a] = content[a]
                  /\ PushesFor(a) => Listening /\ jobs'[Len(jobs')].origin = "retry" ]_vars

\* The server listens after a startup run that has recovered one article, whose
\* new job has succeeded; the other article, left pending by the old process,
\* is still pending and has no job.
C29_Witness ==
  /\ Listening
  /\ \E a, b \in Articles :
       /\ \E j \in JobsOf(a) : jobs[j].origin = "cleanup" /\ jobs[j].state = "finished"
       /\ extractionStatus[a] = "completed"
       /\ LeftAlone(b) /\ extractionStatus[b] = "pending"

\* ---- C30 -------------------------------------------------------------------
\* The job pushed by the POST handler that created article a.
PostJobs(a) == {j \in JobsOf(a) : jobs[j].origin = "post"}

\* C30: POST / has answered for an article only if the job it pushed has been
\* discarded; it answers with an error exactly when that job has failed its 3
\* attempts; the step in which the job is dropped leaves the row in the table
\* with status failed, no step removes a row, and the row is failed still as
\* long as the job is the only one for the article.
C30_PostAnswersAfterJob ==
  /\ [](\A a \in Articles : exists[a] =>
          /\ postReply(a) # "none" => \E j \in PostJobs(a) : Discarded(j)
          /\ postReply(a) = "500 Internal Server Error" <=>
                \E j \in PostJobs(a) : jobs[j].state = "failed" /\ jobs[j].runs = 3
          /\ postReply(a) = "200 Article added and extraction started" <=>
                \E j \in PostJobs(a) : jobs[j].state = "finished"
          /\ \A j \in PostJobs(a) :
                (jobs[j].state = "failed" /\ OnlyJob(a, j)) => extractionStatus[a] = "failed")
  /\ [][\A a \in Articles :
          /\ exists[a] => exists'[a]
          /\ (postReply(a) = "none" /\ postReply(a)' = "500 Internal Server Error") =>
                exists'[a] /\ extractionStatus'[a] = "failed"]_vars

\* The POST request has ended in an error; the article it created is in the
\* table, failed, with the error of the last attempt.
C30_Witness ==
  \E a \in Articles :
    /\ exists[a] /\ postReply(a) = "500 Internal Server Error"
    /\ extractionStatus[a] = "failed" /\ extractionError[a] # Null
    /\ \E j \in PostJobs(a) : OnlyJob(a, j) /\ jobs[j].reason # Null

====
